---- MODULE Spec2Model ----
(***************************************************************************)
(* The recursive-descent parser of jawk (src/jawk/src/parser/mod.rs) and   *)
(* the AST it builds (src/jawk/src/parser/types.rs).                       *)
(*                                                                         *)
(* The grammar functions are operators over (ts, cur): the token vector    *)
(* and the value of Parser::current on entry.  Each returns a result       *)
(* record [current, panic, val]: the cursor on exit, the panic raised (an  *)
(* option, <<>> when none) and the value returned (an option, <<>> after a *)
(* panic).  Parser::parse's top-level loop is the state machine.           *)
(* source records the program text the token vector was lexed from, as the *)
(* pieces it was written in; the parser never reads it.                    *)
(* Rust Option<T> is a sequence of length 0 (None) or 1 (Some).            *)
(***************************************************************************)
EXTENDS Naturals, Sequences, FiniteSets

VARIABLES source, tokens, current, begin, end, generic, status, program, panic

vars == <<source, tokens, current, begin, end, generic, status, program, panic>>

(***************************************************************************)
(* Tokens (crate::lexer::Token) and their kinds (Token::ttype).            *)
(***************************************************************************)
TNumberF64(n) == [kind |-> "NumberF64", num |-> n]

TString(s) == [kind |-> "String", str |-> s]

TIdent(s) == [kind |-> "Ident", name |-> s]

TBinOp(o) == [kind |-> "BinOp", op |-> o]

TMathOp(o) == [kind |-> "MathOp", op |-> o]

TInplaceEq(o) == [kind |-> "InplaceEq", op |-> o]

TPlain(k) == [kind |-> k]

ttype(t) ==
    CASE t.kind \in {"BinOp"} -> t.op
      [] t.kind = "MathOp" -> (IF t.op = "Modulus" THEN "Modulo" ELSE t.op)
      [] t.kind = "InplaceEq" -> "InplaceAssign"
      [] OTHER -> t.kind

(***************************************************************************)
(* AST constructors (types.rs).                                            *)
(***************************************************************************)
new_var(e) == [typ |-> "Variable", expr |-> e]

new_num(e) == [typ |-> "Float", expr |-> e]

new_str(e) == [typ |-> "String", expr |-> e]

ENumberF64(n) == [tag |-> "NumberF64", num |-> n]

EString(s) == [tag |-> "String", str |-> s]

EVariable(s) == [tag |-> "Variable", name |-> s]

EAssign(s, v) == [tag |-> "Assign", name |-> s, value |-> v]

EConcatenation(vs) == [tag |-> "Concatenation", vals |-> vs]

EBinOp(l, o, r) == [tag |-> "BinOp", l |-> l, op |-> o, r |-> r]

EMathOp(l, o, r) == [tag |-> "MathOp", l |-> l, op |-> o, r |-> r]

ELogicalOp(l, o, r) == [tag |-> "LogicalOp", l |-> l, op |-> o, r |-> r]

EColumn(c) == [tag |-> "Column", col |-> c]

SExpr(e) == [tag |-> "Expr", e |-> e]

SPrint(e) == [tag |-> "Print", e |-> e]

SGroup(ss) == [tag |-> "Group", stmts |-> ss]

SIf(test, ifso, ifnot) == [tag |-> "If", test |-> test, ifso |-> ifso, ifnot |-> ifnot]

SWhile(test, body) == [tag |-> "While", test |-> test, body |-> body]

PatternAction_new(pattern, action) == [pattern |-> pattern, action |-> action]

\* new_pattern_only printing the first field in place of the whole record.
new_pattern_only_first_field(test) ==
    PatternAction_new(<<test>>, SPrint(new_str(EColumn(new_num(ENumberF64(1))))))

new_pattern_only(test) ==
    PatternAction_new(<<test>>, SPrint(new_str(EColumn(new_num(ENumberF64(0))))))

new_action_only(body) == PatternAction_new(<<>>, body)

Program_new(begins, ends, pattern_actions) ==
    [begins |-> begins, ends |-> ends, pattern_actions |-> pattern_actions]

PANormal(pa) == [pa |-> "Normal", unit |-> pa]

PABegin(s) == [pa |-> "Begin", body |-> s]

PAEnd(s) == [pa |-> "End", body |-> s]

(***************************************************************************)
(* Results and panics.  A result is [ok, current, panic, val]; a panic     *)
(* records what its message is formatted from: the fixed text, and (as     *)
(* options) the token kind that was expected, the kind found and the token *)
(* found.                                                                  *)
(***************************************************************************)
Ok(cur, v) == [ok |-> TRUE, current |-> cur, panic |-> <<>>, val |-> <<v>>]

Panic(cur, e) == [ok |-> FALSE, current |-> cur, panic |-> <<e>>, val |-> <<>>]

Panicked(r) == ~r.ok

ExpectedToken(message, typ, found) ==
    [class |-> "ExpectedToken", message |-> message, expected |-> <<typ>>,
     found_kind |-> <<ttype(found)>>, found |-> <<found>>]

PrimaryAtEnd ==
    [class |-> "PrimaryAtEnd", message |-> "Primary and at end", expected |-> <<>>,
     found_kind |-> <<>>, found |-> <<>>]

UnexpectedToken(found) ==
    [class |-> "UnexpectedToken", message |-> "Unexpected token", expected |-> <<>>,
     found_kind |-> <<ttype(found)>>, found |-> <<found>>]

IndexOutOfBounds ==
    [class |-> "IndexOutOfBounds", message |-> "index out of bounds",
     expected |-> <<>>, found_kind |-> <<>>, found |-> <<>>]

UnwrapNone ==
    [class |-> "UnwrapNone", message |-> "called Option::unwrap() on a None value",
     expected |-> <<>>, found_kind |-> <<>>, found |-> <<>>]

ParserBug(message) ==
    [class |-> "ParserBug", message |-> message, expected |-> <<>>,
     found_kind |-> <<>>, found |-> <<>>]

\* The result r with the value v in place of its own; r itself when r panicked.
WithVal(r, v) == IF r.ok THEN Ok(r.current, v) ELSE r

(***************************************************************************)
(* Cursor primitives.  The vector is indexed from 0 in the code and from 1 *)
(* here: tokens[current] is ts[cur + 1].                                   *)
(***************************************************************************)
peek(ts, cur) == ts[cur + 1]

peek_next(ts, cur) ==
    IF cur + 1 < Len(ts) THEN Ok(cur, ts[cur + 2]) ELSE Panic(cur, IndexOutOfBounds)

is_at_end(ts, cur) == ttype(ts[cur + 1]) = "EOF"

previous(ts, cur) == IF cur = 0 THEN <<>> ELSE <<ts[cur]>>

\* advance moving on from the sentinel as from any token.
advance_unsaturated(ts, cur) == Ok(cur + 1, ts[cur + 1])

advance(ts, cur) ==
    LET c == IF ~is_at_end(ts, cur) THEN cur + 1 ELSE cur
        prev == previous(ts, c)
    IN  IF prev = <<>> THEN Panic(c, UnwrapNone) ELSE Ok(c, prev[1])

check(ts, cur, typ) == IF is_at_end(ts, cur) THEN FALSE ELSE typ = ttype(peek(ts, cur))

consume(ts, cur, typ, message) ==
    IF check(ts, cur, typ)
    THEN advance(ts, cur)
    ELSE Panic(cur, ExpectedToken(message, typ, peek(ts, cur)))

\* The value is the boolean returned; the token advance returns is dropped.
matches(ts, cur, types) ==
    IF cur < Len(ts) /\ ttype(ts[cur + 1]) \in types
    THEN WithVal(advance(ts, cur), TRUE)
    ELSE Ok(cur, FALSE)

\* `if self.matches(..)` took its branch.
Matched(m) == m.ok /\ m.val[1]

\* `match self.previous().unwrap() { Token::kind(op) => op, _ => panic!(message) }`
\* for the operators ops of a token kind.
previous_op(ts, cur, kind, ops, message) ==
    CASE previous(ts, cur) = <<>> -> Panic(cur, UnwrapNone)
      [] previous(ts, cur) # <<>> /\ ts[cur].kind = kind /\ ts[cur].op \in ops ->
            Ok(cur, ts[cur].op)
      [] OTHER -> Panic(cur, ParserBug(message))

(***************************************************************************)
(* The grammar.  A function's statements run in sequence, each from the    *)
(* cursor the one before left, and a panic in any of them ends the         *)
(* function: a sequence is a pipeline of results.  At(cur) starts one,     *)
(* Consume(ts, r, ..) is `self.consume(..);` after r, and Parse(ts, r, f)  *)
(* is `let x = self.f();` after r, adding x to the values r collected.     *)
(* Parse names the function it calls, and Call (defined after them all)    *)
(* resolves the name.  Each                                                *)
(*     let mut expr = ..; while self.matches(..) { expr = .. }             *)
(* is a recursive operator x_loop(ts, lhs) over the result lhs holding the *)
(* cursor and the expression accumulated so far.                           *)
(***************************************************************************)
RECURSIVE Call(_, _, _)
RECURSIVE logical_or_loop(_, _), logical_and_loop(_, _), compare_loop(_, _)
RECURSIVE string_concat_loop(_, _), comparison_loop(_, _), term_loop(_, _)
RECURSIVE exp_loop(_, _), num_cols(_, _), wrap_columns(_, _), stmts_loop(_, _)
RECURSIVE comparison(_, _), assignment(_, _)

At(cur) == Ok(cur, <<>>)

Consume(ts, r, typ, message) ==
    IF r.ok THEN WithVal(consume(ts, r.current, typ, message), r.val[1]) ELSE r

Collect(vals, x) == IF x.ok THEN Ok(x.current, Append(vals, x.val[1])) ELSE x

Parse(ts, r, f) == IF r.ok THEN Collect(r.val[1], Call(f, ts, r.current)) ELSE r

\* The i-th value a pipeline collected, as the function's return value.
Return(r, i) == IF r.ok THEN Ok(r.current, r.val[1][i]) ELSE r

\* `Expr::MathOp(Box::new(l), op, Box::new(self.rhs())).into()`
math_op(l, op, rhs) ==
    IF rhs.ok THEN Ok(rhs.current, new_var(EMathOp(l, op, rhs.val[1]))) ELSE rhs

bin_op(l, op, rhs) ==
    IF rhs.ok THEN Ok(rhs.current, new_var(EBinOp(l, op, rhs.val[1]))) ELSE rhs

logical_op(l, op, rhs) ==
    IF rhs.ok THEN Ok(rhs.current, new_var(ELogicalOp(l, op, rhs.val[1]))) ELSE rhs

assign(var, rhs) ==
    IF rhs.ok THEN Ok(rhs.current, new_var(EAssign(var, rhs.val[1]))) ELSE rhs

primary_group(ts, cur) ==
    LET l == Consume(ts, At(cur), "LeftParen", "Expected to parse a left paren here")
        expr == Parse(ts, l, "expression")
        r == Consume(ts, expr, "RightParen", "Missing closing ')' after group")
    IN  Return(r, 1)

primary(ts, cur) ==
    CASE is_at_end(ts, cur) -> Panic(cur, PrimaryAtEnd)
      [] peek(ts, cur).kind = "NumberF64" ->
            WithVal(advance(ts, cur), new_var(ENumberF64(peek(ts, cur).num)))
      [] peek(ts, cur).kind = "LeftParen" -> primary_group(ts, cur)
      [] peek(ts, cur).kind = "Ident" ->
            WithVal(consume(ts, cur, "Ident", "Expected to parse an ident here"),
                    new_var(EVariable(peek(ts, cur).name)))
      [] peek(ts, cur).kind = "String" ->
            WithVal(consume(ts, cur, "String", "Expected to parse a string here"),
                    new_var(EString(peek(ts, cur).str)))
      [] OTHER -> Panic(cur, UnexpectedToken(peek(ts, cur)))

\* `while self.matches(vec![TokenType::Column]) { num_cols += 1 }`: the value is
\* the count, the cursor stands after the last `$`.
num_cols_next(rest) ==
    IF rest.ok THEN Ok(rest.current, rest.val[1] + 1) ELSE rest

num_cols(ts, cur) ==
    CASE ~matches(ts, cur, {"Column"}).ok -> matches(ts, cur, {"Column"})
      [] Matched(matches(ts, cur, {"Column"})) ->
            num_cols_next(num_cols(ts, matches(ts, cur, {"Column"}).current))
      [] OTHER -> Ok(cur, 0)

\* wrap_columns wrapping once however many `$` were counted.
wrap_columns_once(expr, n) == IF n = 0 THEN expr ELSE new_var(EColumn(expr))

\* `for _ in 0..num_cols { expr = Column(expr) }`
wrap_columns(expr, n) ==
    IF n = 0 THEN expr ELSE wrap_columns(new_var(EColumn(expr)), n - 1)

column_wrap(n, p) == IF p.ok THEN Ok(p.current, wrap_columns(p.val[1], n)) ELSE p

column_primary(ts, n) ==
    IF n.ok THEN column_wrap(n.val[1], primary(ts, n.current)) ELSE n

column(ts, cur) == column_primary(ts, num_cols(ts, cur))

exp_rhs(ts, lhs, m) ==
    CASE ~m.ok -> m
      [] Matched(m) ->
            exp_loop(ts, math_op(lhs.val[1], "Exponent", column(ts, m.current)))
      [] OTHER -> lhs

exp_loop(ts, lhs) ==
    IF lhs.ok THEN exp_rhs(ts, lhs, matches(ts, lhs.current, {"Exponent"})) ELSE lhs

exp(ts, cur) == exp_loop(ts, column(ts, cur))

\* term_op taking the whole additive level as right operand.
term_op_additive(ts, lhs, op) ==
    IF op.ok
    THEN term_loop(ts, math_op(lhs.val[1], op.val[1], comparison(ts, op.current)))
    ELSE op

\* term_op taking the rest of the multiplicative chain as right operand.
term_op_right(ts, lhs, op) ==
    IF op.ok
    THEN math_op(lhs.val[1], op.val[1], term_loop(ts, exp(ts, op.current)))
    ELSE op

term_op(ts, lhs, op) ==
    IF op.ok
    THEN term_loop(ts, math_op(lhs.val[1], op.val[1], exp(ts, op.current)))
    ELSE op

term_rhs(ts, lhs, m) ==
    CASE ~m.ok -> m
      [] Matched(m) ->
            term_op(ts, lhs,
                    previous_op(ts, m.current, "MathOp", {"Star", "Slash", "Modulus"},
                                "Parser bug in comparison function"))
      [] OTHER -> lhs

term_loop(ts, lhs) ==
    IF lhs.ok
    THEN term_rhs(ts, lhs, matches(ts, lhs.current, {"Star", "Slash", "Modulo"}))
    ELSE lhs

term(ts, cur) == term_loop(ts, exp(ts, cur))

\* `Expr::NumberF64(1.0).into()`
One == new_var(ENumberF64(1))

\* inc_dec without the inverse step: `(name = name op 1) op 1`.
inc_dec_no_inverse(expr, op, inverse) ==
    new_var(EMathOp(new_var(EAssign(expr.expr.name, new_var(EMathOp(expr, op, One)))),
                    op, One))

\* `(name = name op 1) inverse 1`, built when `name op op` has been read.
inc_dec(expr, op, inverse) ==
    new_var(EMathOp(new_var(EAssign(expr.expr.name, new_var(EMathOp(expr, op, One)))),
                    inverse, One))

\* `if let Expr::Variable(name) = expr.expr.clone()` and
\* `op == sign && self.peek().ttype() == sign`
is_inc_dec(ts, lhs, op, sign) ==
    /\ lhs.val[1].expr.tag = "Variable"
    /\ op.val[1] = sign
    /\ ttype(peek(ts, op.current)) = ttype(TMathOp(sign))

\* comparison_op taking one term as right operand.
comparison_op_iterative(ts, lhs, op) ==
    CASE ~op.ok -> op
      [] op.ok /\ is_inc_dec(ts, lhs, op, "Plus") ->
            comparison_loop(ts, WithVal(advance(ts, op.current),
                                        inc_dec(lhs.val[1], "Plus", "Minus")))
      [] op.ok /\ is_inc_dec(ts, lhs, op, "Minus") ->
            comparison_loop(ts, WithVal(advance(ts, op.current),
                                        inc_dec(lhs.val[1], "Minus", "Plus")))
      [] OTHER ->
            comparison_loop(ts, math_op(lhs.val[1], op.val[1],
                                        term(ts, op.current)))

comparison_op(ts, lhs, op) ==
    CASE ~op.ok -> op
      [] op.ok /\ is_inc_dec(ts, lhs, op, "Plus") ->
            comparison_loop(ts, WithVal(advance(ts, op.current),
                                        inc_dec(lhs.val[1], "Plus", "Minus")))
      [] op.ok /\ is_inc_dec(ts, lhs, op, "Minus") ->
            comparison_loop(ts, WithVal(advance(ts, op.current),
                                        inc_dec(lhs.val[1], "Minus", "Plus")))
      [] OTHER ->
            comparison_loop(ts, math_op(lhs.val[1], op.val[1],
                                        comparison(ts, op.current)))

comparison_rhs(ts, lhs, m) ==
    CASE ~m.ok -> m
      [] Matched(m) ->
            comparison_op(ts, lhs,
                          previous_op(ts, m.current, "MathOp", {"Minus", "Plus"},
                                      "Parser bug in comparison function"))
      [] OTHER -> lhs

\* The additive level.
comparison_loop(ts, lhs) ==
    IF lhs.ok
    THEN comparison_rhs(ts, lhs, matches(ts, lhs.current, {"Plus", "Minus"}))
    ELSE lhs

comparison(ts, cur) == comparison_loop(ts, term(ts, cur))

not_these ==
    {"InplaceAssign", "Less", "LessEq", "BangEq", "EqEq", "Greater", "GreaterEq",
     "And", "Or", "Eq", "Semicolon", "RightBrace", "RightParen", "LeftBrace"}

\* `vals.push(..)` into the node when expr is a Concatenation, a new two-element
\* Concatenation otherwise.
concat_push(expr, operand) ==
    CASE ~operand.ok -> operand
      [] operand.ok /\ expr.expr.tag = "Concatenation" ->
            Ok(operand.current,
               [typ |-> expr.typ,
                expr |-> EConcatenation(Append(expr.expr.vals, operand.val[1]))])
      [] OTHER ->
            Ok(operand.current, new_var(EConcatenation(<<expr, operand.val[1]>>)))

string_concat_loop(ts, lhs) ==
    CASE ~lhs.ok -> lhs
      [] lhs.ok /\ ~is_at_end(ts, lhs.current)
                /\ ttype(peek(ts, lhs.current)) \notin not_these ->
            string_concat_loop(ts, concat_push(lhs.val[1], comparison(ts, lhs.current)))
      [] OTHER -> lhs

string_concat(ts, cur) == string_concat_loop(ts, comparison(ts, cur))

compare_op(ts, lhs, op) ==
    IF op.ok
    THEN compare_loop(ts, bin_op(lhs.val[1], op.val[1], string_concat(ts, op.current)))
    ELSE op

compare_rhs(ts, lhs, m) ==
    CASE ~m.ok -> m
      [] Matched(m) ->
            compare_op(ts, lhs,
                       previous_op(ts, m.current, "BinOp",
                                   {"Less", "LessEq", "Greater", "GreaterEq",
                                    "BangEq", "EqEq"},
                                   "Parser bug in compare matches function"))
      [] OTHER -> lhs

compare_loop(ts, lhs) ==
    IF lhs.ok
    THEN compare_rhs(ts, lhs,
                     matches(ts, lhs.current,
                             {"GreaterEq", "Greater", "Less", "LessEq", "EqEq", "BangEq"}))
    ELSE lhs

compare(ts, cur) == compare_loop(ts, string_concat(ts, cur))

logical_and_rhs(ts, lhs, m) ==
    CASE ~m.ok -> m
      [] Matched(m) ->
            logical_and_loop(ts, logical_op(lhs.val[1], "And", compare(ts, m.current)))
      [] OTHER -> lhs

logical_and_loop(ts, lhs) ==
    IF lhs.ok THEN logical_and_rhs(ts, lhs, matches(ts, lhs.current, {"And"})) ELSE lhs

logical_and(ts, cur) == logical_and_loop(ts, compare(ts, cur))

logical_or_rhs(ts, lhs, m) ==
    CASE ~m.ok -> m
      [] Matched(m) ->
            logical_or_loop(ts, logical_op(lhs.val[1], "Or", logical_and(ts, m.current)))
      [] OTHER -> lhs

logical_or_loop(ts, lhs) ==
    IF lhs.ok THEN logical_or_rhs(ts, lhs, matches(ts, lhs.current, {"Or"})) ELSE lhs

logical_or(ts, cur) == logical_or_loop(ts, logical_and(ts, cur))

\* The operators a Token::InplaceEq can carry.
MathOps == {"Minus", "Plus", "Slash", "Star", "Modulus", "Exponent"}

\* assignment_op with the operands of math_op exchanged: `var = rhs math_op var`.
assignment_op_exchanged(ts, var, op) ==
    IF op.ok
    THEN assign(var, WithVal(assignment(ts, op.current),
                             new_var(EMathOp(assignment(ts, op.current).val[1], op.val[1],
                                             new_var(EVariable(var))))))
    ELSE op

\* `var = var math_op rhs`
assignment_op(ts, var, op) ==
    IF op.ok
    THEN assign(var, math_op(new_var(EVariable(var)), op.val[1],
                             assignment(ts, op.current)))
    ELSE op

assignment_inplace(ts, lhs, m) ==
    CASE ~m.ok -> m
      [] Matched(m) ->
            assignment_op(ts, lhs.val[1].expr.name,
                          previous_op(ts, m.current, "InplaceEq", MathOps, "not possible"))
      [] OTHER -> lhs

assignment_eq(ts, lhs, m) ==
    CASE ~m.ok -> m
      [] Matched(m) -> assign(lhs.val[1].expr.name, assignment(ts, m.current))
      [] OTHER ->
            assignment_inplace(ts, lhs, matches(ts, lhs.current, {"InplaceAssign"}))

assignment_lhs(ts, lhs) ==
    CASE ~lhs.ok -> lhs
      [] lhs.ok /\ lhs.val[1].expr.tag = "Variable" ->
            assignment_eq(ts, lhs, matches(ts, lhs.current, {"Eq"}))
      [] OTHER -> lhs

assignment(ts, cur) == assignment_lhs(ts, logical_or(ts, cur))

\* `self.assignment().into()`: TypedExpr into TypedExpr is the identity conversion.
expression(ts, cur) == assignment(ts, cur)

(***************************************************************************)
(* The statement grammar.                                                  *)
(***************************************************************************)
group(ts, cur) ==
    LET l == Consume(ts, At(cur), "LeftBrace", "Expected a '}'")
        s == Parse(ts, l, "stmts")
        r == Consume(ts, s, "RightBrace", "Expected a '}'")
    IN  Return(r, 1)

optional_semicolon(ts, stmt) ==
    CASE ~stmt.ok -> stmt
      [] stmt.ok /\ ttype(peek(ts, stmt.current)) = "Semicolon" ->
            WithVal(consume(ts, stmt.current, "Semicolon", "not possible"), stmt.val[1])
      [] OTHER -> stmt

stmt_and_optional_semicolon(ts, cur) == optional_semicolon(ts, Call("stmt", ts, cur))

\* for_desugar with incr put before body.
for_desugar_incr_first(r) ==
    IF r.ok
    THEN Ok(r.current,
            SGroup(<<r.val[1][1],
                     SWhile(r.val[1][2], SGroup(<<r.val[1][3], r.val[1][4]>>))>>))
    ELSE r

\* `Stmt::Group(vec![init, Stmt::While(test, Box::new(Stmt::Group(vec![body, incr])))])`
\* from the values <<init, test, incr, body>>.
for_desugar(r) ==
    IF r.ok
    THEN Ok(r.current,
            SGroup(<<r.val[1][1],
                     SWhile(r.val[1][2], SGroup(<<r.val[1][4], r.val[1][3]>>))>>))
    ELSE r

\* The `for` branch of stmt, entered with the cursor after the keyword.
stmt_for(ts, cur) ==
    LET lp == Consume(ts, At(cur), "LeftParen", "Expected a '(' after the for keyword")
        init == Parse(ts, lp, "stmt")
        s1 == Consume(ts, init, "Semicolon", "Expected a ';' after for loop init statement")
        test == Parse(ts, s1, "expression")
        s2 == Consume(ts, test, "Semicolon", "Expected a ';' after for loop test statement")
        incr == Parse(ts, s2, "stmt")
        rp == Consume(ts, incr, "RightParen", "Expected a ')' to end for loop")
        lb == Consume(ts, rp, "LeftBrace", "Expected a '{' to begin for loop body")
        body == Parse(ts, lb, "stmts")
        rb == Consume(ts, body, "RightBrace", "Expected a '}' after for loop body")
    IN  for_desugar(rb)

\* `if let Token::Ident(str) = self.consume(Ident, ..) { str } else { panic!(..) }`
consume_ident(ts, cur) ==
    WithVal(consume(ts, cur, "Ident", "Expected identifier before '='"),
            <<peek(ts, cur).name>>)

\* assign_stmt with the tag of a number on the tree.
assign_stmt_float(r) ==
    IF r.ok
    THEN Ok(r.current, SExpr(new_num(EAssign(r.val[1][1], r.val[1][2]))))
    ELSE r

assign_stmt(r) ==
    IF r.ok
    THEN Ok(r.current, SExpr(new_var(EAssign(r.val[1][1], r.val[1][2]))))
    ELSE r

\* The `ident =` branch of stmt, entered with the cursor on the token before `=`.
stmt_assign(ts, cur) ==
    LET str == consume_ident(ts, cur)
        eq == Consume(ts, str, "Eq", "Expected '=' after identifier")
        e == Parse(ts, eq, "expression")
    IN  assign_stmt(e)

while_stmt(r) == IF r.ok THEN Ok(r.current, SWhile(r.val[1][1], r.val[1][2])) ELSE r

\* The `while` branch of stmt, entered with the cursor after the keyword.
stmt_while(ts, cur) ==
    LET lp == Consume(ts, At(cur), "LeftParen", "Must have paren after while")
        expr == Parse(ts, lp, "expression")
        rp == Consume(ts, expr, "RightParen",
                      "Must have right parent after while statement test expression")
        lb == Consume(ts, rp, "LeftBrace", "Must have brace after while (expr)")
        body == Parse(ts, lb, "stmts")
        rb == Consume(ts, body, "RightBrace", "While loop must be followed by '}'")
    IN  while_stmt(rb)

\* `Stmt::If(predicate, Box::new(then_blk), else_blk)`: r collected
\* <<predicate, then_blk>>, and else_blk after `else` was matched.
if_else(ts, r, m) ==
    CASE ~m.ok -> m
      [] Matched(m) ->
            LET e == Parse(ts, WithVal(m, r.val[1]), "group")
            IN  IF e.ok
                THEN Ok(e.current, SIf(e.val[1][1], e.val[1][2], <<e.val[1][3]>>))
                ELSE e
      [] OTHER -> Ok(r.current, SIf(r.val[1][1], r.val[1][2], <<>>))

if_then(ts, r) == IF r.ok THEN if_else(ts, r, matches(ts, r.current, {"Else"})) ELSE r

if_stmt(ts, cur) ==
    LET lp == Consume(ts, At(cur), "LeftParen", "Expected '(' after if")
        predicate == Parse(ts, lp, "expression")
        rp == Consume(ts, predicate, "RightParen", "Expected ')' after if predicate")
        then_blk == Parse(ts, rp, "group")
    IN  if_then(ts, then_blk)

print_stmt(e) == IF e.ok THEN Ok(e.current, SPrint(e.val[1])) ELSE e

expr_stmt(e) == IF e.ok THEN Ok(e.current, SExpr(e.val[1])) ELSE e

\* `{ stmts }` as a statement, entered with the cursor after the brace.
stmt_group(ts, cur) ==
    LET s == Parse(ts, At(cur), "stmts")
        r == Consume(ts, s, "RightBrace", "Expected a right brace after a group")
    IN  Return(r, 1)

\* stmt from its third test on: next is what `self.peek_next()` gave.  The second
\* test for `print` is never met: the first took every print.
stmt_rest(ts, cur, next) ==
    CASE ~next.ok -> next
      [] next.ok /\ ttype(next.val[1]) = "Eq" -> stmt_assign(ts, cur)
      [] next.ok /\ ttype(next.val[1]) # "Eq" /\ ttype(peek(ts, cur)) = "While" ->
            stmt_while(ts, matches(ts, cur, {"While"}).current)
      [] next.ok /\ ttype(next.val[1]) # "Eq" /\ ttype(peek(ts, cur)) = "If" ->
            if_stmt(ts, matches(ts, cur, {"If"}).current)
      [] next.ok /\ ttype(next.val[1]) # "Eq" /\ ttype(peek(ts, cur)) = "LeftBrace" ->
            stmt_group(ts, matches(ts, cur, {"LeftBrace"}).current)
      [] OTHER -> expr_stmt(Call("expression", ts, cur))

stmt(ts, cur) ==
    CASE ttype(peek(ts, cur)) = "Print" ->
            print_stmt(Call("expression", ts, matches(ts, cur, {"Print"}).current))
      [] ttype(peek(ts, cur)) = "For" -> stmt_for(ts, matches(ts, cur, {"For"}).current)
      [] OTHER -> stmt_rest(ts, cur, peek_next(ts, cur))

\* `while self.peek().ttype() != RightBrace { stmts.push(..) }`: acc holds the
\* vector pushed so far.
stmts_loop(ts, acc) ==
    CASE ~acc.ok -> acc
      [] acc.ok /\ ttype(peek(ts, acc.current)) # "RightBrace" ->
            stmts_loop(ts, Collect(acc.val[1],
                                   Call("stmt_and_optional_semicolon", ts, acc.current)))
      [] OTHER -> acc

\* stmts_collapse without the test for a single statement.
stmts_always_group(l) == IF l.ok THEN Ok(l.current, SGroup(l.val[1])) ELSE l

\* `if stmts.len() == 1 { return stmts.pop().unwrap() } Stmt::Group(stmts)`
stmts_collapse(l) ==
    CASE ~l.ok -> l
      [] l.ok /\ Len(l.val[1]) = 1 -> Ok(l.current, l.val[1][1])
      [] OTHER -> Ok(l.current, SGroup(l.val[1]))

stmts(ts, cur) == stmts_collapse(stmts_loop(ts, At(cur)))

(***************************************************************************)
(* The top-level unit grammar.                                             *)
(***************************************************************************)
\* `{ print 1; }`, entered with the cursor after the brace.
pa_action(ts, cur) ==
    LET s == Parse(ts, At(cur), "stmts")
        r == Consume(ts, s, "RightBrace", "Expected '}' after action block")
    IN  IF r.ok THEN Ok(r.current, PANormal(new_action_only(r.val[1][1]))) ELSE r

\* `BEGIN { print 1; }`, entered with the cursor after the keyword.
pa_begin(ts, cur) ==
    LET l == Consume(ts, At(cur), "LeftBrace", "Expected a '{' after a begin")
        s == Parse(ts, l, "stmts")
        r == Consume(ts, s, "RightBrace", "Begin action should end with '}'")
    IN  IF r.ok THEN Ok(r.current, PABegin(r.val[1][1])) ELSE r

\* `END { print 1; }`, entered with the cursor after the keyword.
pa_end(ts, cur) ==
    LET l == Consume(ts, At(cur), "LeftBrace", "Expected a {' after a end")
        s == Parse(ts, l, "stmts")
        r == Consume(ts, s, "RightBrace", "End action should end with '}'")
    IN  IF r.ok THEN Ok(r.current, PAEnd(r.val[1][1])) ELSE r

\* `test { print 1; }`, entered with the cursor after the brace.
pa_test_action(ts, test, cur) ==
    LET s == Parse(ts, Ok(cur, <<test>>), "stmts")
        r == Consume(ts, s, "RightBrace", "Patern action should end with '}'")
    IN  IF r.ok
        THEN Ok(r.current, PANormal(PatternAction_new(<<r.val[1][1]>>, r.val[1][2])))
        ELSE r

\* `test { print 1; }` or `test`, after the test.
pa_test(ts, test) ==
    CASE ~test.ok -> test
      [] test.ok /\ Matched(matches(ts, test.current, {"LeftBrace"})) ->
            pa_test_action(ts, test.val[1],
                           matches(ts, test.current, {"LeftBrace"}).current)
      [] OTHER -> Ok(test.current, PANormal(new_pattern_only(test.val[1])))

pattern_action(ts, cur) ==
    CASE ttype(peek(ts, cur)) = "LeftBrace" ->
            pa_action(ts, matches(ts, cur, {"LeftBrace"}).current)
      [] ttype(peek(ts, cur)) = "Begin" ->
            pa_begin(ts, matches(ts, cur, {"Begin"}).current)
      [] ttype(peek(ts, cur)) = "End" -> pa_end(ts, matches(ts, cur, {"End"}).current)
      [] OTHER -> pa_test(ts, Call("expression", ts, cur))

Call(f, ts, cur) ==
    CASE f = "pattern_action" -> pattern_action(ts, cur)
      [] f = "stmts" -> stmts(ts, cur)
      [] f = "stmt_and_optional_semicolon" -> stmt_and_optional_semicolon(ts, cur)
      [] f = "stmt" -> stmt(ts, cur)
      [] f = "group" -> group(ts, cur)
      [] f = "expression" -> expression(ts, cur)

(***************************************************************************)
(* Parser::parse as a state machine: one step per iteration of its loop.   *)
(* status is "parsing" inside the loop, "returned" once Program::new has   *)
(* been returned, "aborted" once a panic has unwound the call.             *)
(***************************************************************************)
\* `let mut parser = Parser { tokens, current: 0 }` and the three empty vectors.
Start(src, ts) ==
    /\ source = src
    /\ tokens = ts
    /\ current = 0
    /\ begin = <<>>
    /\ end = <<>>
    /\ generic = <<>>
    /\ status = "parsing"
    /\ program = <<>>
    /\ panic = <<>>

\* ParseLoop with the cursor left where it was.
ParseLoop_NoAdvance ==
    /\ status = "parsing"
    /\ ~is_at_end(tokens, current)
    /\ \E r \in {Call("pattern_action", tokens, current)} :
           /\ ~Panicked(r)
           /\ generic' = Append(generic, r.val[1])
    /\ UNCHANGED <<source, tokens, current, begin, end, status, program, panic>>

\* One iteration of the loop in which pattern_action returns.
ParseLoop ==
    /\ status = "parsing"
    /\ ~is_at_end(tokens, current)
    /\ \E r \in {Call("pattern_action", tokens, current)} :
           /\ ~Panicked(r)
           /\ current' = r.current
           /\ begin' = IF r.val[1].pa = "Begin" THEN Append(begin, r.val[1].body) ELSE begin
           /\ end' = IF r.val[1].pa = "End" THEN Append(end, r.val[1].body) ELSE end
           /\ generic' = IF r.val[1].pa = "Normal"
                         THEN Append(generic, r.val[1].unit) ELSE generic
    /\ UNCHANGED <<source, tokens, status, program, panic>>

\* One iteration of the loop in which pattern_action panics: the call unwinds.
ParsePanic ==
    /\ status = "parsing"
    /\ ~is_at_end(tokens, current)
    /\ \E r \in {Call("pattern_action", tokens, current)} :
           /\ Panicked(r)
           /\ current' = r.current
           /\ panic' = r.panic
    /\ status' = "aborted"
    /\ UNCHANGED <<source, tokens, begin, end, generic, program>>

\* ParseReturn without the loop's test for the sentinel.
ParseReturn_Anywhere ==
    /\ status = "parsing"
    /\ program' = <<Program_new(begin, end, generic)>>
    /\ status' = "returned"
    /\ UNCHANGED <<source, tokens, current, begin, end, generic, panic>>

\* The loop ends and Program::new(begin, end, generic) is returned.
ParseReturn ==
    /\ status = "parsing"
    /\ is_at_end(tokens, current)
    /\ program' = <<Program_new(begin, end, generic)>>
    /\ status' = "returned"
    /\ UNCHANGED <<source, tokens, current, begin, end, generic, panic>>

Next == ParseLoop \/ ParsePanic \/ ParseReturn

(***************************************************************************)
(* Inputs.  Every input ends in the end-of-stream sentinel, which stands   *)
(* nowhere else.  An input written as source text records, in source, the  *)
(* pieces it was written in and the tree each piece stands for.            *)
(***************************************************************************)
EOF == TPlain("EOF")

LeftBrace == TPlain("LeftBrace")

RightBrace == TPlain("RightBrace")

LeftParen == TPlain("LeftParen")

RightParen == TPlain("RightParen")

Semicolon == TPlain("Semicolon")

Eq == TPlain("Eq")

Begin == TPlain("Begin")

End == TPlain("End")

PrintKw == TPlain("Print")

While == TPlain("While")

For == TPlain("For")

If == TPlain("If")

Else == TPlain("Else")

Column == TPlain("Column")

Plus == TMathOp("Plus")

Minus == TMathOp("Minus")

\* The trees the repository's tests write with num!, texpr!, mathop! and binop!.
num(n) == new_var(ENumberF64(n))

var(s) == new_var(EVariable(s))

str(s) == new_var(EString(s))

mathop(a, op, b) == new_var(EMathOp(a, op, b))

binop(a, op, b) == new_var(EBinOp(a, op, b))

assign_to(s, v) == new_var(EAssign(s, v))

concat(vs) == new_var(EConcatenation(vs))

col(e) == new_var(EColumn(e))

RECURSIVE Flatten(_)
\* The token sequences of pieces, one after the other.
Flatten(pieces) ==
    IF pieces = <<>> THEN <<>> ELSE Head(pieces) \o Flatten(Tail(pieces))

RECURSIVE SeqsUpTo(_, _)
\* The sequences over S of length at most n.
SeqsUpTo(S, n) ==
    IF n = 0 THEN {<<>>}
    ELSE LET shorter == SeqsUpTo(S, n - 1)
         IN  shorter \cup {Append(q, x) : q \in {q \in shorter : Len(q) = n - 1}, x \in S}

\* f applied to each element of q.
Map(f(_), q) == [i \in DOMAIN q |-> f(q[i])]

\* Parsing has ended, one way or the other.
Ended == status # "parsing"

(***************************************************************************)
(* Spec: every token sequence over Alphabet, well-formed or not.           *)
(***************************************************************************)
\* The longest token sequence (sentinel not counted) of the specification Spec.
MaxLen == 4

\* The most opening brackets in a token sequence of the specification Spec.
MaxNest == 2

Alphabet ==
    {LeftBrace, RightBrace, Semicolon, Eq, Plus, LeftParen, RightParen,
     TIdent("a"), Begin}

\* The number of opening brackets in q.
Openings(q) == Cardinality({i \in DOMAIN q : q[i] \in {LeftBrace, LeftParen}})

Init ==
    \E q \in {q \in SeqsUpTo(Alphabet, MaxLen) : Openings(q) <= MaxNest} :
        Start([family |-> "tokens"], Append(q, EOF))

Spec == Init /\ [][Next]_vars

\* The number of top-level units collected so far.
Collected == Len(begin) + Len(end) + Len(generic)

\* C1: parse is all-or-nothing.  An abort returns no Program; a Program is
\* returned only with the cursor on the sentinel, the last token, after every
\* iteration of the loop has moved the cursor forward over the tokens of the one
\* unit it collected; so no Program is built from a proper prefix of the tokens.
C1_AllOrNothing ==
    /\ [](/\ status = "aborted" => program = <<>>
          /\ program # <<>> =>
                /\ status = "returned"
                /\ panic = <<>>
                /\ is_at_end(tokens, current)
                /\ current + 1 = Len(tokens)
                /\ program[1] = Program_new(begin, end, generic))
    /\ [][status' = "parsing" =>
            /\ current' > current
            /\ Collected' = Collected + 1]_vars

\* An abort after a unit has been collected: the unit is returned to no one.
C1_Witness == status = "aborted" /\ generic # <<>> /\ program = <<>>

\* C2: every abort is a SyntaxError of one of the three classes (expected token
\* not found, end-of-stream where a primary was required, unrecognized token in
\* primary position) and carries the expectation, the kind of the token found
\* and the token found; no other failure occurs.
C2_AbortIsSyntaxError ==
    status = "aborted" =>
        /\ Len(panic) = 1
        /\ panic[1].class \in {"ExpectedToken", "PrimaryAtEnd", "UnexpectedToken"}
        /\ panic[1].message # ""
        /\ panic[1].found_kind # <<>>
        /\ panic[1].found # <<>>

(***************************************************************************)
(* SpecUnits: programs written as a sequence of top-level units.           *)
(***************************************************************************)
\* The most units in a program of the specification SpecUnits.
MaxUnits == 3

Unit(kind, toks, test, body) ==
    [kind |-> kind, tokens |-> toks, test |-> test, body |-> body]

Units ==
    {Unit("begin", <<Begin, LeftBrace, PrintKw, TNumberF64(1), Semicolon, RightBrace>>,
          <<>>, <<SPrint(num(1))>>),
     Unit("begin", <<Begin, LeftBrace, RightBrace>>, <<>>, <<SGroup(<<>>)>>),
     Unit("end", <<End, LeftBrace, PrintKw, TNumberF64(3), Semicolon,
                   PrintKw, TNumberF64(4), RightBrace>>,
          <<>>, <<SGroup(<<SPrint(num(3)), SPrint(num(4))>>)>>),
     Unit("action", <<LeftBrace, PrintKw, TNumberF64(5), RightBrace>>,
          <<>>, <<SPrint(num(5))>>),
     Unit("pattern_action", <<TIdent("a"), LeftBrace, PrintKw, TNumberF64(6), Semicolon,
                              RightBrace>>,
          <<var("a")>>, <<SPrint(num(6))>>),
     Unit("pattern", <<TIdent("b")>>, <<var("b")>>, <<>>),
     Unit("pattern", <<Column, TNumberF64(1), TBinOp("EqEq"), TString("x")>>,
          <<binop(col(num(1)), "EqEq", str("x"))>>, <<>>)}

UnitTokens(u) == u.tokens

InitUnits ==
    \E us \in SeqsUpTo(Units, MaxUnits) :
        Start([family |-> "units", units |-> us],
              Append(Flatten(Map(UnitTokens, us)), EOF))

SpecUnits == InitUnits /\ [][Next]_vars

IsBegin(u) == u.kind = "begin"

IsEnd(u) == u.kind = "end"

IsRule(u) == u.kind \in {"action", "pattern_action", "pattern"}

BodyOf(u) == u.body[1]

\* The statement that prints the whole input record.
PrintRecord == SPrint(new_str(EColumn(new_num(ENumberF64(0)))))

\* The PatternAction a generic rule stands for.
RuleOf(u) ==
    [pattern |-> u.test, action |-> IF u.kind = "pattern" THEN PrintRecord ELSE u.body[1]]

\* C3: for a source that is any interleaving of BEGIN blocks, END blocks and
\* generic rules (action-only, pattern with action, pattern-only), parse
\* returns the Program whose begins are the BEGIN bodies, whose ends are the END
\* bodies and whose pattern_actions are the generic rules, each in source
\* order, the three lengths summing to the number of units.
C3_UnitsInSourceOrder ==
    Ended =>
        /\ status = "returned"
        /\ program[1].begins = Map(BodyOf, SelectSeq(source.units, IsBegin))
        /\ program[1].ends = Map(BodyOf, SelectSeq(source.units, IsEnd))
        /\ program[1].pattern_actions = Map(RuleOf, SelectSeq(source.units, IsRule))
        /\ Len(program[1].begins) + Len(program[1].ends)
              + Len(program[1].pattern_actions) = Len(source.units)

\* No pattern-only rule stands before another unit, whose tokens the rule's
\* expression would read on into.
Delimited(us) == \A i \in 1..(Len(us) - 1) : us[i].kind # "pattern"

\* C5: a top-level expression with no brace block after it yields the
\* PatternAction with that expression as pattern and Print(Column(0)) as
\* action; an expression followed by a block yields pattern = the expression
\* and action = the block; a bare block yields no pattern and action = the
\* block.
C5_RuleShapes ==
    status = "returned" /\ Delimited(source.units) =>
        program[1].pattern_actions = Map(RuleOf, SelectSeq(source.units, IsRule))

\* A Program returned for a bare block, a pattern with a block and a pattern alone.
C5_Witness ==
    /\ status = "returned"
    /\ Len(source.units) = 3
    /\ source.units[1].kind = "action"
    /\ source.units[2].kind = "pattern_action"
    /\ source.units[3].kind = "pattern"
    /\ Len(program[1].pattern_actions) = 3

(***************************************************************************)
(* SpecBlocks: one brace-delimited block of statements, in each place the  *)
(* grammar allows a block, and for loops over such blocks.                 *)
(***************************************************************************)
\* The most statements in a block of the specification SpecBlocks.
MaxStmts == 3

Piece(toks, ast) == [tokens |-> toks, ast |-> ast]

\* Statements, two of them inner blocks.
Statements ==
    {Piece(<<PrintKw, TNumberF64(1)>>, SPrint(num(1))),
     Piece(<<TIdent("a"), Eq, TNumberF64(2)>>, SExpr(assign_to("a", num(2)))),
     Piece(<<LeftBrace, PrintKw, TNumberF64(3), Semicolon, PrintKw, TNumberF64(4),
             RightBrace>>,
           SGroup(<<SPrint(num(3)), SPrint(num(4))>>)),
     Piece(<<LeftBrace, PrintKw, TNumberF64(5), RightBrace>>, SPrint(num(5))),
     Piece(<<LeftBrace, RightBrace>>, SGroup(<<>>))}

\* The places of a block: the tokens before its statements and after them.
Places ==
    {[place |-> "action", open |-> <<LeftBrace>>, close |-> <<RightBrace>>],
     [place |-> "begin", open |-> <<Begin, LeftBrace>>, close |-> <<RightBrace>>],
     [place |-> "end", open |-> <<End, LeftBrace>>, close |-> <<RightBrace>>],
     [place |-> "pattern", open |-> <<TIdent("a"), LeftBrace>>, close |-> <<RightBrace>>],
     [place |-> "while",
      open |-> <<LeftBrace, While, LeftParen, TIdent("a"), RightParen, LeftBrace>>,
      close |-> <<RightBrace, RightBrace>>],
     [place |-> "if",
      open |-> <<LeftBrace, If, LeftParen, TIdent("a"), RightParen, LeftBrace>>,
      close |-> <<RightBrace, RightBrace>>],
     [place |-> "else",
      open |-> <<LeftBrace, If, LeftParen, TIdent("a"), RightParen, LeftBrace,
                 PrintKw, TNumberF64(1), RightBrace, Else, LeftBrace>>,
      close |-> <<RightBrace, RightBrace>>],
     [place |-> "group", open |-> <<LeftBrace, LeftBrace>>,
      close |-> <<RightBrace, RightBrace>>]}

\* The loop heads: init, test and incr.
ForInits ==
    {Piece(<<TIdent("a"), Eq, TNumberF64(0)>>, SExpr(assign_to("a", num(0)))),
     Piece(<<TIdent("a")>>, SExpr(var("a")))}

ForTests ==
    {Piece(<<TIdent("a"), TBinOp("Less"), TNumberF64(3)>>, binop(var("a"), "Less", num(3))),
     Piece(<<TIdent("a")>>, var("a"))}

ForIncrs ==
    {Piece(<<TIdent("a"), Eq, TIdent("a"), Plus, TNumberF64(1)>>,
           SExpr(assign_to("a", mathop(var("a"), "Plus", num(1))))),
     Piece(<<PrintKw, TIdent("a")>>, SPrint(var("a")))}

\* The tokens of the statements ss, each followed by `;` when semis.
StmtTokens(ss, semis) ==
    Flatten([i \in DOMAIN ss |->
                IF semis THEN Append(ss[i].tokens, Semicolon) ELSE ss[i].tokens])

InitBlock ==
    \E w \in Places, ss \in SeqsUpTo(Statements, MaxStmts), semis \in BOOLEAN :
        Start([family |-> "block", place |-> w.place, stmts |-> ss, semis |-> semis],
              Append(w.open \o StmtTokens(ss, semis) \o w.close, EOF))

InitFor ==
    \E init \in ForInits, test \in ForTests, incr \in ForIncrs,
       ss \in SeqsUpTo(Statements, MaxStmts), semis \in BOOLEAN :
        Start([family |-> "for", init |-> init.ast, test |-> test.ast,
               incr |-> incr.ast, stmts |-> ss, semis |-> semis],
              Append(<<LeftBrace, For, LeftParen>> \o init.tokens \o <<Semicolon>>
                       \o test.tokens \o <<Semicolon>> \o incr.tokens
                       \o <<RightParen, LeftBrace>> \o StmtTokens(ss, semis)
                       \o <<RightBrace, RightBrace>>,
                     EOF))

InitBlocks == InitBlock \/ InitFor

SpecBlocks == InitBlocks /\ [][Next]_vars

AstOf(piece) == piece.ast

\* What a block of the statements ss stands for.
BlockOf(ss) == IF Len(ss) = 1 THEN ss[1].ast ELSE SGroup(Map(AstOf, ss))

ActionOnly(body) == Program_new(<<>>, <<>>, <<[pattern |-> <<>>, action |-> body]>>)

\* The Program for a block standing for body in the place w.
ProgramOf(w, body) ==
    CASE w = "action" -> ActionOnly(body)
      [] w = "begin" -> Program_new(<<body>>, <<>>, <<>>)
      [] w = "end" -> Program_new(<<>>, <<body>>, <<>>)
      [] w = "pattern" ->
            Program_new(<<>>, <<>>, <<[pattern |-> <<var("a")>>, action |-> body]>>)
      [] w = "while" -> ActionOnly(SWhile(var("a"), body))
      [] w = "if" -> ActionOnly(SIf(var("a"), body, <<>>))
      [] w = "else" -> ActionOnly(SIf(var("a"), SPrint(num(1)), <<body>>))
      [] w = "group" -> ActionOnly(body)

\* C4: for a block of N statements stmts returns the statement itself when
\* N = 1 and the Group of all N in source order when N # 1 (the empty Group when
\* N = 0), in every place of a block: action, BEGIN and END bodies, while and
\* for bodies, if and else groups, bare inner groups; a block whose only
\* statement is an inner block is the inner block's result.
C4_BlockCollapse ==
    /\ source.family = "block" /\ status = "returned" =>
          program[1] = ProgramOf(source.place, BlockOf(source.stmts))
    /\ source.family = "for" /\ status = "returned" =>
          program[1].pattern_actions[1].action.stmts[2].body.stmts[1]
             = BlockOf(source.stmts)

\* A returned action whose only statement is an inner block of two statements.
C4_Witness ==
    /\ source.family = "block"
    /\ source.place = "action"
    /\ status = "returned"
    /\ Len(source.stmts) = 1
    /\ source.stmts[1].ast = SGroup(<<SPrint(num(3)), SPrint(num(4))>>)
    /\ program[1].pattern_actions[1].action = source.stmts[1].ast

\* C8: `for ( init ; test ; incr ) { body }` is parsed into exactly
\* Group[init, While(test, Group[body, incr])], body being the result of stmts
\* on the loop block: both Groups have two elements, a body of one statement
\* stands unwrapped, and no node is specific to for.
C8_ForDesugar ==
    source.family = "for" /\ status = "returned" =>
        program[1] =
            ActionOnly(SGroup(<<source.init,
                                SWhile(source.test,
                                       SGroup(<<BlockOf(source.stmts), source.incr>>))>>))

\* A returned for loop whose body has two statements.
C8_Witness ==
    /\ source.family = "for"
    /\ status = "returned"
    /\ Len(source.stmts) = 2
    /\ Len(program[1].pattern_actions[1].action.stmts) = 2
    /\ Len(program[1].pattern_actions[1].action.stmts[2].body.stmts) = 2

(***************************************************************************)
(* SpecExpr: one expression, standing alone as a pattern-only rule.        *)
(***************************************************************************)
\* Operands: a number, a variable, a string, a field, a parenthesised variable
\* and a parenthesised sum.
Operands ==
    {Piece(<<TNumberF64(1)>>, num(1)),
     Piece(<<TIdent("a")>>, var("a")),
     Piece(<<TString("s")>>, str("s")),
     Piece(<<Column, TNumberF64(2)>>, col(num(2))),
     Piece(<<LeftParen, TIdent("b"), RightParen>>, var("b")),
     Piece(<<LeftParen, TIdent("a"), Plus, TNumberF64(1), RightParen>>,
           mathop(var("a"), "Plus", num(1)))}

\* Primaries: a number, a variable, a string, a parenthesised variable and a
\* parenthesised concatenation.
Primaries ==
    {Piece(<<TNumberF64(1)>>, num(1)),
     Piece(<<TIdent("a")>>, var("a")),
     Piece(<<TString("s")>>, str("s")),
     Piece(<<LeftParen, TIdent("b"), RightParen>>, var("b")),
     Piece(<<LeftParen, TIdent("p"), TIdent("q"), RightParen>>,
           concat(<<var("p"), var("q")>>))}

\* Left operands of a doubled sign: the Operands and a product.
Lefts ==
    Operands \cup {Piece(<<TIdent("a"), TMathOp("Star"), TIdent("b")>>,
                         mathop(var("a"), "Star", var("b")))}

\* Right-hand sides: a number, a sum, an assignment and a concatenation.
Rights ==
    {Piece(<<TNumberF64(1)>>, num(1)),
     Piece(<<TNumberF64(1), Plus, TNumberF64(2)>>, mathop(num(1), "Plus", num(2))),
     Piece(<<TIdent("b"), Eq, TNumberF64(3)>>, assign_to("b", num(3))),
     Piece(<<TIdent("c"), TIdent("d")>>, concat(<<var("c"), var("d")>>))}

\* Left-hand sides that are no bare variable.
NonVariables ==
    {Piece(<<TNumberF64(1)>>, num(1)),
     Piece(<<Column, TNumberF64(2)>>, col(num(2))),
     Piece(<<TIdent("a"), Plus, TNumberF64(1)>>, mathop(var("a"), "Plus", num(1))),
     Piece(<<TIdent("a"), TIdent("b")>>, concat(<<var("a"), var("b")>>))}

\* Binding strength of an arithmetic operator.
Strength(op) ==
    CASE op \in {"Plus", "Minus"} -> 1
      [] op \in {"Star", "Slash", "Modulus"} -> 2
      [] op = "Exponent" -> 3

\* x op1 y op2 z, the two operators of different strength.
InitArith ==
    \E x \in Operands, y \in Operands, z \in Operands, op1 \in MathOps, op2 \in MathOps :
        /\ Strength(op1) # Strength(op2)
        /\ Start([family |-> "arith", x |-> x.ast, y |-> y.ast, z |-> z.ast,
                  op1 |-> op1, op2 |-> op2],
                 Append(x.tokens \o <<TMathOp(op1)>> \o y.tokens \o <<TMathOp(op2)>>
                          \o z.tokens, EOF))

\* The four shapes: a < b c, a b < c, a b - c, a - c b.
InitConcat ==
    \E a \in Primaries, b \in Primaries, c \in Primaries, shape \in 1..4 :
        Start([family |-> "concat", a |-> a.ast, b |-> b.ast, c |-> c.ast,
               shape |-> shape],
              Append(CASE shape = 1 -> a.tokens \o <<TBinOp("Less")>> \o b.tokens \o c.tokens
                       [] shape = 2 -> a.tokens \o b.tokens \o <<TBinOp("Less")>> \o c.tokens
                       [] shape = 3 -> a.tokens \o b.tokens \o <<Minus>> \o c.tokens
                       [] shape = 4 -> a.tokens \o <<Minus>> \o c.tokens \o b.tokens,
                     EOF))

\* left sign1 sign2
InitIncDec ==
    \E left \in Lefts, sign1 \in {"Plus", "Minus"}, sign2 \in {"Plus", "Minus"} :
        Start([family |-> "incdec", left |-> left.ast, width |-> Len(left.tokens),
               sign1 |-> sign1, sign2 |-> sign2],
              Append(left.tokens \o <<TMathOp(sign1), TMathOp(sign2)>>, EOF))

\* v op= e
InitAssign ==
    \E v \in {"a", "v"}, op \in MathOps, e \in Rights :
        Start([family |-> "assign", v |-> v, op |-> op, e |-> e.ast,
               expansion |-> Append(<<TIdent(v), Eq, TIdent(v), TMathOp(op), LeftParen>>
                                      \o e.tokens \o <<RightParen>>, EOF)],
              Append(<<TIdent(v), TInplaceEq(op)>> \o e.tokens, EOF))

\* v = w = e
InitChain ==
    \E v \in {"a", "v"}, w \in {"b", "w"}, e \in Rights :
        Start([family |-> "chain", v |-> v, w |-> w, e |-> e.ast],
              Append(<<TIdent(v), Eq, TIdent(w), Eq>> \o e.tokens, EOF))

\* left = e and left op= e, left no bare variable
InitNonVariable ==
    \E left \in NonVariables, by \in {Eq} \cup {TInplaceEq(op) : op \in MathOps},
       e \in Rights :
        Start([family |-> "nonvariable", left |-> left.ast, width |-> Len(left.tokens),
               by |-> by],
              Append(left.tokens \o <<by>> \o e.tokens, EOF))

InitExpr ==
    \/ InitArith
    \/ InitConcat
    \/ InitIncDec
    \/ InitAssign
    \/ InitChain
    \/ InitNonVariable

SpecExpr == InitExpr /\ [][Next]_vars

\* The Program of the one pattern-only rule with the pattern e.
PatternOnly(e) ==
    Program_new(<<>>, <<>>, <<[pattern |-> <<e>>, action |-> PrintRecord]>>)

\* parse has returned the Program of the one pattern-only rule e.
Parsed(e) == status = "returned" /\ program = <<PatternOnly(e)>>

\* C6: in an unparenthesised arithmetic expression exponent binds tighter than
\* the multiplicative operators and these tighter than the additive ones, on
\* whichever side the tighter operator stands: x + y * z is Plus(x, Star(y, z)),
\* x * y + z is Plus(Star(x, y), z), x ^ y * z is Star(Exponent(x, y), z).
C6_ArithmeticPrecedence ==
    source.family = "arith" /\ Ended =>
        IF Strength(source.op1) < Strength(source.op2)
        THEN Parsed(mathop(source.x, source.op1, mathop(source.y, source.op2, source.z)))
        ELSE Parsed(mathop(mathop(source.x, source.op1, source.y), source.op2, source.z))

\* x * y + z has been parsed, x a field and z a parenthesised sum.
C6_Witness ==
    /\ source.family = "arith"
    /\ status = "returned"
    /\ source.op1 = "Star"
    /\ source.op2 = "Plus"
    /\ source.x = col(num(2))
    /\ source.z = mathop(var("a"), "Plus", num(1))
    /\ program[1].pattern_actions[1].pattern[1].expr.op = "Plus"

\* C7: juxtaposition binds tighter than comparison and looser than additive
\* arithmetic: for all primaries a, b, c, a < b c is Less(a, Concat(b, c)),
\* a b < c is Less(Concat(a, b), c), a b - c is Concat(a, Minus(b, c)) and
\* a - c b is Concat(Minus(a, c), b).
C7_ConcatPrecedence ==
    source.family = "concat" /\ Ended =>
        CASE source.shape = 1 ->
                Parsed(binop(source.a, "Less", concat(<<source.b, source.c>>)))
          [] source.shape = 2 ->
                Parsed(binop(concat(<<source.a, source.b>>), "Less", source.c))
          [] source.shape = 3 ->
                Parsed(concat(<<source.a, mathop(source.b, "Minus", source.c)>>))
          [] source.shape = 4 ->
                Parsed(concat(<<mathop(source.a, "Minus", source.c), source.b>>))

\* The sign that undoes sign.
Inverse(sign) == IF sign = "Plus" THEN "Minus" ELSE "Plus"

\* C9: at the additive level a bare variable v followed by + + has both tokens
\* consumed and yields MathOp(Assign(v, MathOp(Variable v, Plus, 1)), Minus, 1),
\* and v - - yields MathOp(Assign(v, MathOp(Variable v, Minus, 1)), Plus, 1);
\* in no other case is a doubled sign rewritten: after a left operand that is
\* no bare variable, or before a different sign, the second sign is not
\* consumed.
C9_IncrementDecrement ==
    source.family = "incdec" /\ Ended =>
        IF source.left.expr.tag = "Variable" /\ source.sign1 = source.sign2
        THEN /\ Parsed(mathop(assign_to(source.left.expr.name,
                                        mathop(source.left, source.sign1, num(1))),
                              Inverse(source.sign1), num(1)))
             /\ current = source.width + 2
        ELSE /\ status = "aborted"
             /\ generic = <<>>
             /\ current = source.width + 1
             /\ panic = <<UnexpectedToken(TMathOp(source.sign2))>>

\* v - - has been rewritten.
C9_Witness ==
    /\ source.family = "incdec"
    /\ status = "returned"
    /\ source.left = var("a")
    /\ source.sign1 = "Minus"
    /\ program[1].pattern_actions[1].pattern[1].expr.l.expr.tag = "Assign"

\* C10: v op= e yields Assign(v, MathOp(Variable v, op, E)), E being e parsed at
\* the assignment level, the tree of v = v op (e); a = b = e yields
\* Assign(a, Assign(b, E)); and an = or op= after a left-hand side that is no
\* bare variable is not consumed by the assignment level.
C10_CompoundAssignment ==
    /\ source.family = "assign" /\ Ended =>
          /\ Parsed(assign_to(source.v, mathop(var(source.v), source.op, source.e)))
          /\ expression(source.expansion, 0)
                = Ok(Len(source.expansion) - 1, program[1].pattern_actions[1].pattern[1])
    /\ source.family = "chain" /\ Ended =>
          Parsed(assign_to(source.v, assign_to(source.w, source.e)))
    /\ source.family = "nonvariable" /\ Ended =>
          /\ status = "aborted"
          /\ generic = <<[pattern |-> <<source.left>>, action |-> PrintRecord]>>
          /\ current = source.width
          /\ panic = <<UnexpectedToken(source.by)>>

\* v *= e has been parsed, e an assignment.
C10_Witness ==
    /\ source.family = "assign"
    /\ status = "returned"
    /\ source.op = "Star"
    /\ source.e = assign_to("b", num(3))
    /\ program[1].pattern_actions[1].pattern[1].expr.value.expr.r = source.e

(***************************************************************************)
(* SpecStmt: one statement `v = e` in a block, closed or left unclosed.    *)
(***************************************************************************)
\* Right-hand sides as tokens: the Rights, and three that cannot be parsed.
StmtRights ==
    {r.tokens : r \in Rights}
        \cup {<<>>, <<TNumberF64(1), Plus>>, <<LeftParen, TIdent("a")>>}

\* What stands before the statement.
StmtOpenings == {<<LeftBrace>>, <<Begin, LeftBrace>>, <<TIdent("a"), LeftBrace>>}

\* What stands after it.
StmtEndings ==
    {<<RightBrace>>, <<Semicolon, RightBrace>>,
     <<Semicolon, PrintKw, TNumberF64(1), RightBrace>>, <<>>}

\* at is the cursor at which stmt is entered, after the end of e.
InitStmt ==
    \E open \in StmtOpenings, v \in {"a", "v"}, e \in StmtRights, close \in StmtEndings :
        Start([family |-> "assign_stmt", v |-> v, e |-> e, at |-> Len(open),
               after |-> Len(open) + 2 + Len(e), closed |-> close # <<>>],
              Append(open \o <<TIdent(v), Eq>> \o e \o close, EOF))

SpecStmt == InitStmt /\ [][Next]_vars

\* The body of the one unit parse has returned, whatever its kind.
ReturnedBody ==
    IF program[1].begins # <<>>
    THEN program[1].begins[1]
    ELSE program[1].pattern_actions[1].action

\* C11: for `v = e` the statement-level path of stmt (identifier followed by =)
\* gives Stmt::Expr of the tree the assignment level of the expression grammar
\* gives for the same tokens, type tags included, and leaves the cursor where
\* the assignment level leaves it; a parse that fails on e fails alike on both
\* paths.
C11_AssignPathsAgree ==
    source.family = "assign_stmt" =>
        /\ Call("stmt", tokens, source.at) = expr_stmt(assignment(tokens, source.at))
        /\ stmt_assign(tokens, source.at) = expr_stmt(assignment(tokens, source.at))
        /\ Call("stmt", tokens, source.at).ok =>
              /\ Call("stmt", tokens, source.at).current = source.after
              /\ Call("stmt", tokens, source.at).val[1].e.typ = "Variable"
              /\ Call("stmt", tokens, source.at).val[1].e.expr.tag = "Assign"
              /\ Call("stmt", tokens, source.at).val[1].e.expr.name = source.v

\* parse has returned the statement `v = b = 3` of a BEGIN block.
C11_Witness ==
    /\ source.family = "assign_stmt"
    /\ status = "returned"
    /\ source.e = <<TIdent("b"), Eq, TNumberF64(3)>>
    /\ program[1].begins # <<>>
    /\ ReturnedBody = Call("stmt", tokens, source.at).val[1]
    /\ ReturnedBody = SExpr(assign_to(source.v, assign_to("b", num(3))))

(***************************************************************************)
(* SpecColumn: a primary behind k `$`, alone, as an operand of a binary    *)
(* operator, or juxtaposed with a second field.                            *)
(***************************************************************************)
\* The most `$` before a primary in the specification SpecColumn.
MaxCols == 3

ColumnPrimaries ==
    {Piece(<<TNumberF64(0)>>, num(0)),
     Piece(<<TIdent("a")>>, var("a")),
     Piece(<<TString("s")>>, str("s")),
     Piece(<<LeftParen, TIdent("b"), RightParen>>, var("b")),
     Piece(<<LeftParen, TIdent("a"), Plus, TNumberF64(1), RightParen>>,
           mathop(var("a"), "Plus", num(1)))}

\* The binary operators, each with its token and the node it builds.
BinaryOps ==
    {[token |-> TMathOp(op), node |-> "MathOp", op |-> op] : op \in MathOps}
        \cup {[token |-> TBinOp(op), node |-> "BinOp", op |-> op] :
                op \in {"Less", "LessEq", "Greater", "GreaterEq", "EqEq", "BangEq"}}
        \cup {[token |-> TPlain(op), node |-> "LogicalOp", op |-> op] :
                op \in {"And", "Or"}}

\* The node of the operator o over l and r.
NodeOf(o, l, r) ==
    CASE o.node = "MathOp" -> mathop(l, o.op, r)
      [] o.node = "BinOp" -> binop(l, o.op, r)
      [] o.node = "LogicalOp" -> new_var(ELogicalOp(l, o.op, r))

\* k `$`
Sigils(k) == [i \in 1..k |-> Column]

RECURSIVE Nested(_, _)
\* e inside k Column nodes.
Nested(e, k) == IF k = 0 THEN e ELSE col(Nested(e, k - 1))

\* $..$ p
InitColumnAlone ==
    \E k \in 0..MaxCols, p \in ColumnPrimaries :
        Start([family |-> "column", shape |-> "alone", k |-> k, p |-> p.ast,
               at |-> 0, width |-> Len(p.tokens)],
              Append(Sigils(k) \o p.tokens, EOF))

\* $..$ p op 2 and 2 op $..$ p
InitColumnOperand ==
    \E k \in 0..MaxCols, p \in ColumnPrimaries, o \in BinaryOps, side \in {"left", "right"} :
        Start([family |-> "column", shape |-> side, k |-> k, p |-> p.ast, o |-> o,
               at |-> IF side = "left" THEN 0 ELSE 2, width |-> Len(p.tokens)],
              Append(IF side = "left"
                     THEN Sigils(k) \o p.tokens \o <<o.token, TNumberF64(2)>>
                     ELSE <<TNumberF64(2), o.token>> \o Sigils(k) \o p.tokens,
                     EOF))

\* $..$ p $ 2 and $ 2 $..$ p, k > 0
InitColumnJuxtaposed ==
    \E k \in 1..MaxCols, p \in ColumnPrimaries, side \in {"first", "second"} :
        Start([family |-> "column", shape |-> side, k |-> k, p |-> p.ast,
               at |-> IF side = "first" THEN 0 ELSE 2, width |-> Len(p.tokens)],
              Append(IF side = "first"
                     THEN Sigils(k) \o p.tokens \o <<Column, TNumberF64(2)>>
                     ELSE <<Column, TNumberF64(2)>> \o Sigils(k) \o p.tokens,
                     EOF))

\* $..$ alone, a field of nothing
InitColumnNothing ==
    \E k \in 1..MaxCols :
        Start([family |-> "nothing", k |-> k], Append(Sigils(k), EOF))

InitColumn ==
    \/ InitColumnAlone
    \/ InitColumnOperand
    \/ InitColumnJuxtaposed
    \/ InitColumnNothing

SpecColumn == InitColumn /\ [][Next]_vars

\* C12: the field level, entered at the first of k >= 0 leading `$`, consumes
\* them, parses one primary p and returns p inside exactly k nested Column nodes (p itself when k = 0); it
\* binds tighter than every binary operator and than juxtaposition: $$0 is
\* Column(Column(0)), $0 + 2 is Plus(Column(0), 2), $1 $2 is
\* Concat(Column(1), Column(2)).
C12_ColumnPrefix ==
    /\ source.family = "column" =>
          /\ column(tokens, source.at)
                = Ok(source.at + source.k + source.width, Nested(source.p, source.k))
          /\ Ended =>
                CASE source.shape = "alone" -> Parsed(Nested(source.p, source.k))
                  [] source.shape = "left" ->
                        Parsed(NodeOf(source.o, Nested(source.p, source.k), num(2)))
                  [] source.shape = "right" ->
                        Parsed(NodeOf(source.o, num(2), Nested(source.p, source.k)))
                  [] source.shape = "first" ->
                        Parsed(concat(<<Nested(source.p, source.k), col(num(2))>>))
                  [] source.shape = "second" ->
                        Parsed(concat(<<col(num(2)), Nested(source.p, source.k)>>))
    /\ source.family = "nothing" /\ Ended =>
          /\ status = "aborted"
          /\ panic = <<PrimaryAtEnd>>
          /\ current = source.k

\* $$p $2 has been parsed into a Concatenation of two fields.
C12_Witness ==
    /\ source.family = "column"
    /\ status = "returned"
    /\ source.shape = "first"
    /\ source.k = 2
    /\ program[1].pattern_actions[1].pattern[1].expr.tag = "Concatenation"
    /\ program[1].pattern_actions[1].pattern[1].expr.vals[1].expr.col.expr.tag = "Column"

(***************************************************************************)
(* SpecRun: Spec with the call running on.  parse is sequential code that  *)
(* waits for nothing: while it is in its loop, the next iteration is       *)
(* carried out.  Running is what an iteration does to status and current,  *)
(* and it is enabled exactly when Next is, while status = "parsing"; weak  *)
(* fairness is stated on it so that enabledness is decided from the state  *)
(* alone, without parsing the next unit.                                   *)
(***************************************************************************)
Running ==
    /\ status = "parsing"
    /\ status' \in {"parsing", "returned", "aborted"}
    /\ current' \in 0..Len(tokens)

SpecRun == Spec /\ WF_<<current, status>>(Running)

\* The result r of a call entered at the cursor c has moved the cursor on.
MovedOn(r, c) == r.ok => r.current > c

\* Every call of a loop body or of a loop's operand, entered at the cursor c,
\* panics or moves the cursor on: the units of parse, the statements of stmts,
\* the operands of string_concat and those of the operator loops.
LoopsMoveOn(c) ==
    /\ ~is_at_end(tokens, c) => MovedOn(Call("pattern_action", tokens, c), c)
    /\ ttype(peek(tokens, c)) # "RightBrace" =>
          MovedOn(Call("stmt_and_optional_semicolon", tokens, c), c)
    /\ MovedOn(logical_and(tokens, c), c)
    /\ MovedOn(compare(tokens, c), c)
    /\ MovedOn(string_concat(tokens, c), c)
    /\ MovedOn(comparison(tokens, c), c)
    /\ MovedOn(exp(tokens, c), c)
    /\ MovedOn(column(tokens, c), c)
    /\ \A types \in {{"Or"}, {"And"}, {"Plus", "Minus"}, {"Star", "Slash", "Modulo"},
                     {"Exponent"}, {"Column"}, {"Less", "LessEq", "Greater", "GreaterEq",
                                                "EqEq", "BangEq"}} :
          Matched(matches(tokens, c, types)) => matches(tokens, c, types).current > c

Level(o) ==
    CASE o.node = "MathOp" -> Strength(o.op)
      [] o.node = "BinOp" -> 4
      [] o.node = "LogicalOp" /\ o.op = "And" -> 5
      [] o.node = "LogicalOp" /\ o.op = "Or" -> 6

\* x op1 y op2 z, both operators of one level
InitSameLevel ==
    \E x \in Operands, y \in Operands, z \in Operands, o1 \in BinaryOps, o2 \in BinaryOps :
        /\ Level(o1) = Level(o2)
        /\ Start([family |-> "same_level", x |-> x.ast, y |-> y.ast, z |-> z.ast,
                  o1 |-> o1, o2 |-> o2],
                 Append(x.tokens \o <<o1.token>> \o y.tokens \o <<o2.token>> \o z.tokens,
                        EOF))

\* v sign sign op z: an increment or decrement, then a second additive operator
InitAfterRewrite ==
    \E v \in {"a", "v"}, sign \in {"Plus", "Minus"}, then \in {"Plus", "Minus"},
       z \in Operands :
        Start([family |-> "after_rewrite", v |-> v, sign |-> sign, then |-> then,
               z |-> z.ast],
              Append(<<TIdent(v), TMathOp(sign), TMathOp(sign), TMathOp(then)>>
                       \o z.tokens, EOF))

\* x op, the right operand missing
InitDangling ==
    \E x \in Operands, o \in BinaryOps :
        Start([family |-> "dangling", x |-> x.ast, o |-> o],
              Append(x.tokens \o <<o.token>>, EOF))

InitAssoc ==
    \/ InitSameLevel
    \/ InitAfterRewrite
    \/ InitDangling

SpecAssoc == InitAssoc /\ [][Next]_vars

\* C14: each iterative binary level is left-associative: for two operators of
\* one level among logical or, logical and, comparison, multiplicative and
\* exponent, x op1 y op2 z is (x op1 y) op2 z.
C14_LeftAssociative ==
    source.family = "same_level" /\ Level(source.o1) # 1 /\ Ended =>
        Parsed(NodeOf(source.o2, NodeOf(source.o1, source.x, source.y), source.z))

\* x / y % z has been parsed, z a parenthesised sum.
C14_Witness ==
    /\ source.family = "same_level"
    /\ status = "returned"
    /\ source.o1.op = "Slash"
    /\ source.o2.op = "Modulus"
    /\ source.z = mathop(var("a"), "Plus", num(1))
    /\ program[1].pattern_actions[1].pattern[1].expr.l.expr.op = "Slash"

\* The token after a returned additive level entered at c is no sign.
NoSignAfter(c) ==
    comparison(tokens, c).ok =>
        ttype(peek(tokens, comparison(tokens, c).current)) \notin {"Plus", "Minus"}

\* C15: the right operand of + or - is the whole remaining additive chain:
\* x s1 y s2 z is MathOp(x, s1, MathOp(y, s2, z)) for the signs s1, s2; the
\* token after a returned additive level is never + or -, and the additive
\* loop runs a second time only after an increment or decrement was rewritten.
C15_AdditiveRightNested ==
    /\ source.family = "same_level" /\ Level(source.o1) = 1 /\ Ended =>
          Parsed(mathop(source.x, source.o1.op, mathop(source.y, source.o2.op, source.z)))
    /\ source.family = "after_rewrite" /\ Ended =>
          Parsed(mathop(mathop(assign_to(source.v,
                                         mathop(var(source.v), source.sign, num(1))),
                               Inverse(source.sign), num(1)),
                        source.then, source.z))
    /\ \A c \in 0..(Len(tokens) - 1) : NoSignAfter(c)

\* x - y - z has been parsed with the second difference as right operand.
C15_Witness ==
    /\ source.family = "same_level"
    /\ status = "returned"
    /\ source.o1.op = "Minus"
    /\ source.o2.op = "Minus"
    /\ program[1].pattern_actions[1].pattern[1].expr.r.expr.tag = "MathOp"
    /\ program[1].pattern_actions[1].pattern[1].expr.r.expr.op = "Minus"
    /\ program[1].pattern_actions[1].pattern[1].expr.l = source.x

(***************************************************************************)
(* The cursor, over the inputs of Spec.                                    *)
(***************************************************************************)
\* The sets of token kinds the grammar passes to matches.
MatchSets ==
    {{"LeftBrace"}, {"Begin"}, {"End"}, {"Print"}, {"For"}, {"While"}, {"If"}, {"Else"},
     {"Eq"}, {"InplaceAssign"}, {"Or"}, {"And"}, {"Plus", "Minus"},
     {"GreaterEq", "Greater", "Less", "LessEq", "EqEq", "BangEq"},
     {"Star", "Slash", "Modulo"}, {"Exponent"}, {"Column"}}

\* The token kinds the grammar passes to consume and check.
ConsumeTypes ==
    {"LeftBrace", "RightBrace", "LeftParen", "RightParen", "Semicolon", "Ident", "Eq",
     "String"}

\* The grammar functions for a unit, a statement and an expression.
Functions == {"pattern_action", "stmt", "expression"}

\* What advance, consume and matches do to the cursor c.
CursorSteps(c) ==
    /\ ~is_at_end(tokens, c) => advance(tokens, c) = Ok(c + 1, peek(tokens, c))
    /\ is_at_end(tokens, c) => advance(tokens, c).current = c
    /\ \A typ \in ConsumeTypes \cup {"EOF"} :
          IF check(tokens, c, typ)
          THEN consume(tokens, c, typ, "") = Ok(c + 1, peek(tokens, c))
          ELSE ~consume(tokens, c, typ, "").ok /\ consume(tokens, c, typ, "").current = c
    /\ \A types \in MatchSets :
          IF ttype(peek(tokens, c)) \in types
          THEN matches(tokens, c, types) = Ok(c + 1, TRUE)
          ELSE matches(tokens, c, types) = Ok(c, FALSE)

\* A grammar function entered at c leaves the cursor at c or after it, on a
\* token, whether it returns or panics.
CursorRange(c) ==
    \A f \in Functions : Call(f, tokens, c).current \in c..(Len(tokens) - 1)

\* C16: the cursor is always an index from 0 to the index of the sentinel and
\* never decreases; advance returns the token at the cursor and moves the
\* cursor on by one, but leaves it where it is on the sentinel; a successful
\* consume and a matching matches move it by one, a failed consume and a
\* matches that does not match leave it.
C16_CursorInvariant ==
    /\ \A c \in 0..(Len(tokens) - 1) : CursorSteps(c) /\ CursorRange(c)
    /\ [](current \in 0..(Len(tokens) - 1))
    /\ [][current' >= current]_vars
    /\ [](Ended => ttype(tokens[Len(tokens)]) = "EOF")

\* parse has returned with the cursor on the sentinel, four tokens consumed.
C16_Witness ==
    /\ status = "returned"
    /\ current = 4
    /\ ttype(peek(tokens, current)) = "EOF"
    /\ Matched(matches(tokens, 0, {"LeftBrace"}))
    /\ consume(tokens, 1, "RightBrace", "").ok
    /\ advance(tokens, 4).current = 4

(***************************************************************************)
(* SpecConcat: n operands of the additive level, juxtaposed.               *)
(***************************************************************************)
\* The most operands juxtaposed in the specification SpecConcat.
MaxOperands == 3

\* Operands of the additive level: a number, a variable, a string, a field, a
\* sum and a parenthesised concatenation.
Juxtaposed ==
    {Piece(<<TNumberF64(1)>>, num(1)),
     Piece(<<TIdent("a")>>, var("a")),
     Piece(<<TString("s")>>, str("s")),
     Piece(<<Column, TNumberF64(1)>>, col(num(1))),
     Piece(<<TIdent("a"), Plus, TNumberF64(1)>>, mathop(var("a"), "Plus", num(1))),
     Piece(<<LeftParen, TIdent("a"), TIdent("b"), RightParen>>,
           concat(<<var("a"), var("b")>>))}

\* The operands, one after the other, and after them nothing or a stray `)`.
InitJuxtaposed ==
    \E operands \in SeqsUpTo(Juxtaposed, MaxOperands) \ {<<>>}, stray \in BOOLEAN :
        Start([family |-> "juxtaposed", operands |-> Map(AstOf, operands), stray |-> stray],
              Append(Flatten([i \in DOMAIN operands |-> operands[i].tokens])
                       \o (IF stray THEN <<RightParen>> ELSE <<>>),
                     EOF))

SpecConcat == InitJuxtaposed /\ [][Next]_vars

\* C17: n >= 2 juxtaposed operands of the additive level give one
\* Concatenation node whose elements are exactly the n operands, each as it was
\* parsed, in source order, and one operand alone is returned unchanged; so
\* also when an operand is a parenthesised concatenation: (a b) c has the two
\* elements Concat(a, b) and c.
C17_ConcatenationShape ==
    source.family = "juxtaposed" /\ Ended =>
        /\ status = (IF source.stray THEN "aborted" ELSE "returned")
        /\ generic = <<[pattern |-> <<IF Len(source.operands) = 1
                                      THEN source.operands[1]
                                      ELSE concat(source.operands)>>,
                        action |-> PrintRecord]>>

(***************************************************************************)
(* Reads of the token vector, over the inputs of Spec.                     *)
(***************************************************************************)
\* C18: every read of the tokens stays in bounds: peek and is_at_end read at
\* the cursor, which is an index of the vector; previous is unwrapped only
\* when there is a token before the cursor; and peek_next is evaluated only
\* when cursor + 1 is an index, never with the cursor on the sentinel, as when
\* a block is left unclosed before the end of the stream: no parse ends in a
\* read outside the vector.
C18_ReadsInBounds ==
    /\ current + 1 \in DOMAIN tokens
    /\ \A i \in DOMAIN panic : panic[i].class \notin {"IndexOutOfBounds", "UnwrapNone"}

====
